---------------------------- MODULE Spec2Model ----------------------------
(***************************************************************************)
(* json-filter: the condition parser (parse_conditions), the record        *)
(* evaluator and projector (filter_record) and the batch loop (main) of    *)
(* src/src/json_filter/cli.py.                                             *)
(*                                                                         *)
(* A Python str is a sequence of one-character strings.  A JSON / Python   *)
(* value is a record [t, n, d, s]: t is the type tag, n/d the numeric      *)
(* value as a fraction (bool, int, float), s the text of a str.  A float   *)
(* with d = 0 is inf (n = 1), -inf (n = -1) or nan (n = 0).  A dict is a   *)
(* function from keys (strs) to values.                                    *)
(***************************************************************************)
EXTENDS Integers, Sequences, FiniteSets, TLC

VARIABLES
    where,          \* args.where: a str, or NoneStr when --where is absent
    include_keys,   \* args.include_keys: a list of strs, or NoneList
    data,           \* the loaded JSON document
    pc,             \* position in main / filter_record
    n,              \* main: index of the element of data being processed
    out,            \* main: the records collected so far
    conditions,     \* filter_record: parse_conditions(where)
    j,              \* filter_record: index of the condition being folded
    keep,           \* filter_record: the running decision
    current_logic,  \* filter_record: connective for the next fold
    results,        \* history: the `result` computed for each condition
    ret,            \* filter_record: what the finished call returned
    exit_code       \* the process exit status, -1 while running

vars == <<where, include_keys, data, pc, n, out, conditions, j, keep,
          current_logic, results, ret, exit_code>>

-----------------------------------------------------------------------------
(* Python values *)

Value(t, num, den, str) == [t |-> t, n |-> num, d |-> den, s |-> str]
PyNone      == Value("null", 0, 1, <<>>)
PyBool(b)   == Value("bool", IF b THEN 1 ELSE 0, 1, <<>>)
PyInt(i)    == Value("int", i, 1, <<>>)
PyFloat(num, den) == Value("float", num, den, <<>>)
PyStr(s)    == Value("str", 0, 1, s)
PyList(id)  == Value("list", id, 1, <<>>)
PyDict(id)  == Value("dict", id, 1, <<>>)

IsNumber(v) == v.t \in {"bool", "int", "float"}
IsNaN(v)    == v.t = "float" /\ v.d = 0 /\ v.n = 0

EmptyDict == [k \in {} |-> PyNone]

-----------------------------------------------------------------------------
(* str primitives *)

UpperChars == <<"A","B","C","D","E","F","G","H","I","J","K","L","M",
                "N","O","P","Q","R","S","T","U","V","W","X","Y","Z">>
LowerChars == <<"a","b","c","d","e","f","g","h","i","j","k","l","m",
                "n","o","p","q","r","s","t","u","v","w","x","y","z">>
DigitChars == <<"0","1","2","3","4","5","6","7","8","9">>

\* the characters of the model in code-point order
CodePoints == <<"\t", " ", "!", "+", "-", ".">> \o DigitChars
              \o <<"<", "=", ">">> \o UpperChars \o <<"_">> \o LowerChars

Index(seq, c) == IF \E k \in 1..Len(seq) : seq[k] = c
                 THEN CHOOSE k \in 1..Len(seq) : seq[k] = c
                 ELSE 0

Ord(c) == Index(CodePoints, c)

IsDigit(c) == Index(DigitChars, c) # 0
DigitVal(c) == Index(DigitChars, c) - 1

IsSpace(c) == c \in {" ", "\t"}

LowerChar(c) == IF Index(UpperChars, c) # 0
                THEN LowerChars[Index(UpperChars, c)]
                ELSE c

\* str.lower()
Lower(s) == [k \in 1..Len(s) |-> LowerChar(s[k])]

StartsWith(s, p) == Len(p) <= Len(s) /\ SubSeq(s, 1, Len(p)) = p

Drop(s, k) == SubSeq(s, k + 1, Len(s))

\* str.replace(old, new): left to right, non-overlapping
RECURSIVE Replace(_, _, _)
Replace(s, old, new) ==
    IF s = <<>> THEN <<>>
    ELSE IF StartsWith(s, old)
         THEN new \o Replace(Drop(s, Len(old)), old, new)
         ELSE <<Head(s)>> \o Replace(Tail(s), old, new)

\* str.find(sub) + 1: the position of the first occurrence, 0 when absent
Find(s, sub) ==
    LET hits == {p \in 1..Len(s) : StartsWith(Drop(s, p - 1), sub)}
    IN  IF hits = {} THEN 0 ELSE CHOOSE p \in hits : \A q \in hits : p <= q

\* `sub in s`
Contains(s, sub) == Find(s, sub) # 0

\* str.strip()
RECURSIVE LStrip(_)
LStrip(s) == IF s # <<>> /\ IsSpace(Head(s)) THEN LStrip(Tail(s)) ELSE s
RECURSIVE RStrip(_)
RStrip(s) == IF s # <<>> /\ IsSpace(s[Len(s)])
             THEN RStrip(SubSeq(s, 1, Len(s) - 1)) ELSE s
Strip(s) == RStrip(LStrip(s))

\* str.split(): the maximal runs of non-whitespace characters
RECURSIVE SplitFrom(_, _)
SplitFrom(s, cur) ==
    IF s = <<>> THEN (IF cur = <<>> THEN <<>> ELSE <<cur>>)
    ELSE IF IsSpace(Head(s))
         THEN (IF cur = <<>> THEN <<>> ELSE <<cur>>) \o SplitFrom(Tail(s), <<>>)
         ELSE SplitFrom(Tail(s), Append(cur, Head(s)))
Split(s) == SplitFrom(s, <<>>)

\* token.split(symbol, 1): the text before and after the first occurrence
SplitOnce(s, sym) ==
    LET p == Find(s, sym)
    IN  <<SubSeq(s, 1, p - 1), Drop(s, p + Len(sym) - 1)>>

-----------------------------------------------------------------------------
(* int(raw) and float(raw) *)

Pow10(e) == IF e = 0 THEN 1 ELSE
            IF e = 1 THEN 10 ELSE
            IF e = 2 THEN 100 ELSE
            IF e = 3 THEN 1000 ELSE 10000

IsSign(c) == c \in {"+", "-"}
Unsigned(s) == IF s # <<>> /\ IsSign(Head(s)) THEN Tail(s) ELSE s
SignOf(s) == IF s # <<>> /\ Head(s) = "-" THEN -1 ELSE 1

\* digits, with single underscores allowed between digits
IsDigitPart(s) ==
    /\ s # <<>>
    /\ IsDigit(s[1]) /\ IsDigit(s[Len(s)])
    /\ \A k \in 1..Len(s) : IsDigit(s[k]) \/ s[k] = "_"
    /\ \A k \in 1..(Len(s) - 1) : ~(s[k] = "_" /\ s[k + 1] = "_")

RECURSIVE DigitsVal(_, _)
DigitsVal(s, acc) ==
    IF s = <<>> THEN acc
    ELSE DigitsVal(Tail(s), IF Head(s) = "_" THEN acc ELSE 10 * acc + DigitVal(Head(s)))

NumDigits(s) == Cardinality({k \in 1..Len(s) : IsDigit(s[k])})

\* int(raw) succeeds
IsIntLiteral(raw) == IsDigitPart(Unsigned(Strip(raw)))
IntOf(raw) == PyInt(SignOf(Strip(raw)) * DigitsVal(Unsigned(Strip(raw)), 0))

\* the parts of a decimal float literal: mantissa text and exponent text
ExpPos(s) == Find(Lower(s), <<"e">>)
Mantissa(s) == IF ExpPos(s) = 0 THEN s ELSE SubSeq(s, 1, ExpPos(s) - 1)
Exponent(s) == Drop(s, ExpPos(s))
IntPart(m)  == IF Find(m, <<".">>) = 0 THEN m ELSE SubSeq(m, 1, Find(m, <<".">>) - 1)
FracPart(m) == IF Find(m, <<".">>) = 0 THEN <<>> ELSE Drop(m, Find(m, <<".">>))

IsMantissa(m) ==
    /\ (IntPart(m) = <<>> \/ IsDigitPart(IntPart(m)))
    /\ (FracPart(m) = <<>> \/ IsDigitPart(FracPart(m)))
    /\ (IntPart(m) # <<>> \/ FracPart(m) # <<>>)

IsSpecialFloat(u) ==
    Lower(u) \in {<<"i","n","f">>, <<"n","a","n">>,
                  <<"i","n","f","i","n","i","t","y">>}

IsDecimalFloat(u) ==
    /\ IsMantissa(Mantissa(u))
    /\ ExpPos(u) # 0 => IsDigitPart(Unsigned(Exponent(u)))

\* float(raw) succeeds
IsFloatLiteral(raw) ==
    LET u == Unsigned(Strip(raw))
    IN  IsSpecialFloat(u) \/ IsDecimalFloat(u)

FloatOf(raw) ==
    LET s  == Strip(raw)
        u  == Unsigned(s)
        m  == Mantissa(u)
        fd == NumDigits(FracPart(m))
        e  == IF ExpPos(u) = 0 THEN 0
              ELSE SignOf(Exponent(u)) * DigitsVal(Unsigned(Exponent(u)), 0)
        mant == DigitsVal(IntPart(m), 0) * Pow10(fd) + DigitsVal(FracPart(m), 0)
    IN  IF IsSpecialFloat(u)
        THEN (IF Lower(u) = <<"n","a","n">> THEN PyFloat(0, 0)
              ELSE PyFloat(SignOf(s), 0))
        ELSE PyFloat(SignOf(s) * mant * (IF e > 0 THEN Pow10(e) ELSE 1),
                     Pow10(fd) * (IF e < 0 THEN Pow10(-e) ELSE 1))

-----------------------------------------------------------------------------
(* comparison of two Python values *)

\* x < y for two numbers that are not nan
NumLess(x, y) ==
    IF x.d = 0 /\ y.d = 0 THEN x.n < y.n
    ELSE IF x.d = 0 THEN x.n < 0
    ELSE IF y.d = 0 THEN y.n > 0
    ELSE x.n * y.d < y.n * x.d

\* x < y for two strs: lexicographic by code point
RECURSIVE StrLess(_, _)
StrLess(x, y) ==
    IF y = <<>> THEN FALSE
    ELSE IF x = <<>> THEN TRUE
    ELSE IF Head(x) = Head(y) THEN StrLess(Tail(x), Tail(y))
    ELSE Ord(Head(x)) < Ord(Head(y))

\* the two values are of types Python orders against each other
Orderable(x, y) ==
    \/ IsNumber(x) /\ IsNumber(y)
    \/ x.t = "str" /\ y.t = "str"

PyLess(x, y) ==
    IF IsNumber(x) THEN ~IsNaN(x) /\ ~IsNaN(y) /\ NumLess(x, y)
    ELSE StrLess(x.s, y.s)

PyEq(x, y) ==
    IF IsNumber(x) /\ IsNumber(y)
    THEN ~IsNaN(x) /\ ~IsNaN(y) /\ ~NumLess(x, y) /\ ~NumLess(y, x)
    ELSE x = y

Symbols == <<<<"=","=">>, <<"!","=">>, <<">","=">>, <<"<","=">>, <<">">>, <<"<">>>>

\* OPS[symbol](x, y): the operator module's function applied to a record value
\* x and a condition value y; raises TypeError where Python has no ordering
OpRaises(symbol, x, y) ==
    symbol \in {<<">","=">>, <<"<","=">>, <<">">>, <<"<">>} /\ ~Orderable(x, y)

OPS(symbol, x, y) ==
    IF symbol = <<"=","=">> THEN PyEq(x, y)
    ELSE IF symbol = <<"!","=">> THEN ~PyEq(x, y)
    ELSE IF symbol = <<">","=">> THEN PyLess(y, x) \/ PyEq(x, y)
    ELSE IF symbol = <<"<","=">> THEN PyLess(x, y) \/ PyEq(x, y)
    ELSE IF symbol = <<">">> THEN PyLess(y, x)
    ELSE PyLess(x, y)

-----------------------------------------------------------------------------
(* parse_conditions *)

AND_ == <<"A","N","D">>
OR_  == <<"O","R">>
and_ == <<"a","n","d">>
or_  == <<"o","r">>
true_  == <<"t","r","u","e">>
false_ == <<"f","a","l","s","e">>

\* line 27
Tokenize(expr) == Split(Replace(Replace(expr, AND_, and_), OR_, or_))

\* a variant of line 34 that compares the token without lowercasing it
IsConnective_ExactCase(token) == token \in {and_, or_}

\* line 34
IsConnective(token) == Lower(token) \in {and_, or_}

\* a variant of lines 40-41 whose list tests > and < before the two-character
\* symbols
MatchedSymbol_ShortFirst(token) ==
    LET hits == {k \in 1..Len(Symbols) : Contains(token, Symbols[k])}
    IN  IF hits = {} THEN 0
        ELSE IF 5 \in hits THEN 5
        ELSE IF 6 \in hits THEN 6
        ELSE CHOOSE k \in hits : \A q \in hits : k <= q

\* lines 40-41: the first symbol of the list that occurs in the token, 0 if none
MatchedSymbol(token) ==
    LET hits == {k \in 1..Len(Symbols) : Contains(token, Symbols[k])}
    IN  IF hits = {} THEN 0 ELSE CHOOSE k \in hits : \A q \in hits : k <= q

\* lines 46-54
Coerce(raw) ==
    IF IsIntLiteral(raw) THEN IntOf(raw)
    ELSE IF IsFloatLiteral(raw) THEN FloatOf(raw)
    ELSE IF Lower(raw) \in {true_, false_} THEN PyBool(Lower(raw) = true_)
    ELSE PyStr(raw)

\* a variant of lines 42-56 that appends the default connective instead of the
\* pending one
MakeCondition_DefaultLogic(token, symbol, logic) ==
    LET parts == SplitOnce(token, symbol)
    IN  [key   |-> Strip(parts[1]),
         op    |-> symbol,
         val   |-> Coerce(Strip(parts[2])),
         logic |-> and_]

\* lines 42-56
MakeCondition(token, symbol, logic) ==
    LET parts == SplitOnce(token, symbol)
    IN  [key   |-> Strip(parts[1]),
         op    |-> symbol,
         val   |-> Coerce(Strip(parts[2])),
         logic |-> logic]

\* lines 31-59: the while loop, from token i with the pending connective `logic`
RECURSIVE ParseLoop(_, _, _, _)
ParseLoop(tokens, i, logic, conds) ==
    IF i > Len(tokens) THEN conds
    ELSE IF IsConnective(tokens[i])
         THEN ParseLoop(tokens, i + 1, Lower(tokens[i]), conds)
         ELSE IF MatchedSymbol(tokens[i]) = 0
              THEN ParseLoop(tokens, i + 1, logic, conds)
              ELSE ParseLoop(tokens, i + 1, logic,
                     Append(conds, MakeCondition(tokens[i],
                                     Symbols[MatchedSymbol(tokens[i])], logic)))

parse_conditions(expr) == ParseLoop(Tokenize(expr), 1, and_, <<>>)

-----------------------------------------------------------------------------
(* filter_record and main *)

NoneStr      == [none |-> TRUE,  s |-> <<>>]
SomeStr(s)   == [none |-> FALSE, s |-> s]
NoneList     == [none |-> TRUE,  keys |-> <<>>]
SomeList(ks) == [none |-> FALSE, keys |-> ks]

\* Python truthiness of an optional str / an optional list
TruthyStr(opt)  == ~opt.none /\ opt.s # <<>>
TruthyList(opt) == ~opt.none /\ opt.keys # <<>>

\* what a call of filter_record gave back
Pending     == [kind |-> "pending", r |-> EmptyDict, same |-> FALSE]
ReturnedNone == [kind |-> "none", r |-> EmptyDict, same |-> FALSE]
\* `same`: the returned object is the argument rec itself, not a new dict
Returned(r, same) == [kind |-> "dict", r |-> r, same |-> same]
Raised      == [kind |-> "TypeError", r |-> EmptyDict, same |-> FALSE]

\* an element of the input array: a JSON object or something else
Object(rec) == [isdict |-> TRUE,  rec |-> rec]
NonObject   == [isdict |-> FALSE, rec |-> EmptyDict]

ListDoc(items) == [kind |-> "list", items |-> items]
ScalarDoc      == [kind |-> "object", items |-> <<>>]
UnreadableDoc  == [kind |-> "unreadable", items |-> <<>>]

\* the record main hands to filter_record
rec == data.items[n].rec

\* line 73: `key in rec and op(rec[key], val)`
Present(r, cond) == cond.key \in DOMAIN r
CondRaises(r, cond) == Present(r, cond) /\ OpRaises(cond.op, r[cond.key], cond.val)
\* a variant of line 73 that compares rec.get(key), None for a missing key
CondResult_Get(r, cond) ==
    OPS(cond.op, IF Present(r, cond) THEN r[cond.key] ELSE PyNone, cond.val)

CondResult(r, cond) == Present(r, cond) /\ OPS(cond.op, r[cond.key], cond.val)

\* lines 74-77
Combine(logic, acc, result) ==
    IF logic = and_ THEN acc /\ result ELSE acc \/ result

\* a variant of line 78 that never updates current_logic
NextLogic_Stale(cond) == and_

\* line 78: the connective the next fold uses
NextLogic(cond) == cond.logic

\* a variant of line 85 that leaves out the keys the record lacks
Project_OmitsMissing(r, keys) ==
    [k \in {keys[p] : p \in 1..Len(keys)} \cap DOMAIN r |-> r[k]]

\* line 85: {k: rec.get(k) for k in include_keys}
Project(r, keys) ==
    [k \in {keys[p] : p \in 1..Len(keys)} |->
        IF k \in DOMAIN r THEN r[k] ELSE PyNone]

\* line 84
Projects(keys) == TruthyList(keys)

-----------------------------------------------------------------------------
(* the inputs the model is run on *)

\* the number of comparisons in the generated chains `c1 <conn> c2 <conn> ...`
MaxChain == 3

K_age   == <<"a","g","e">>
K_name  == <<"n","a","m","e">>
K_id    == <<"i","d">>
K_SCORE == <<"S","C","O","R","E">>
K_ScorE == <<"S","c","o","r","E">>
K_BRAND == <<"B","R","A","N","D">>
K_BRand == <<"B","R","a","n","d">>

S_US      == <<"U","S">>
S_us      == <<"u","s">>
S_ORLANDO == <<"O","R","L","A","N","D","O">>
S_orLandO == <<"o","r","L","a","n","d","O">>
S_x       == <<"x">>

RECURSIVE Join(_)
Join(tokens) ==
    IF tokens = <<>> THEN <<>>
    ELSE IF Len(tokens) = 1 THEN tokens[1]
    ELSE tokens[1] \o <<" ">> \o Join(Tail(tokens))

\* chains: the k-th comparison is `<k-th key>==<k>`, joined by any connectives
ChainKeys == <<"a","b","c","d","e">>
ChainComp(k) == <<ChainKeys[k], "=", "=", DigitChars[k + 1]>>
Conns == {and_, or_, <<"O","r">>, <<"A","n","d">>}

RECURSIVE ChainTokens(_)
ChainTokens(k) ==
    IF k = 1 THEN {<<ChainComp(1)>>}
    ELSE {t \o <<c, ChainComp(k)>> : t \in ChainTokens(k - 1), c \in Conns}

ChainWheres == {Join(t) : t \in UNION {ChainTokens(k) : k \in 1..MaxChain}}

\* each chain key is absent, holds the matching integer, or holds 0
ChainRecords ==
    {[key \in {<<ChainKeys[k]>> : k \in {q \in 1..MaxChain : f[q] # "absent"}} |->
         IF f[Index(ChainKeys, key[1])] = "match"
         THEN PyInt(Index(ChainKeys, key[1])) ELSE PyInt(0)]
     : f \in [1..MaxChain -> {"absent", "match", "other"}]}

\* single comparisons: every key, symbol and literal
SingleKeys == {K_age, K_SCORE}
SingleLits == {<<"1","8">>, <<"-","5">>, <<"1","_","8">>, <<"1","8",".","5">>,
               <<"1","e","1">>, <<"n","a","n">>, true_, <<"F","a","l","s","e">>,
               S_US, S_ORLANDO, <<>>}
SingleWheres ==
    {k \o Symbols[q] \o lit : k \in SingleKeys, q \in 1..Len(Symbols), lit \in SingleLits}

SingleValues == {PyInt(17), PyInt(18), PyInt(19), PyInt(1), PyInt(-5),
                 PyFloat(185, 10), PyFloat(180, 10), PyBool(TRUE), PyBool(FALSE),
                 PyStr(S_US), PyStr(S_us), PyStr(S_ORLANDO), PyStr(S_orLandO),
                 PyStr(<<"1","8">>), PyStr(<<"n","a","n">>), PyStr(<<>>),
                 PyNone, PyList(1), PyDict(1)}

Named == (K_name :> PyStr(S_x))

SingleRecords ==
    {(K_age :> v) @@ Named : v \in SingleValues}
    \cup {Named, (K_SCORE :> PyInt(20)) @@ Named, (K_ScorE :> PyInt(20)) @@ Named,
          (K_BRAND :> PyStr(S_x)), (K_BRand :> PyStr(S_x)) @@ (K_age :> PyInt(19)),
          (<<>> :> PyStr(<<>>)) @@ (K_age :> PyInt(19))}

\* expressions with stray tokens, several symbols, other casings, whitespace
OddWheres ==
    {<<>>,
     <<" ", "\t">>,
     K_age,
     and_,
     Join(<<K_age, <<">","=">>, <<"1","8">>>>),
     <<"a","g","e",">","1","=","=","1">>,
     <<"a","g","e","<","=","1","9",">","=","1","8">>,
     <<"a","g","e","=",">","1","8">>,
     <<"a","g","e",">","=","=","1","8">>,
     <<"a","g","e","<",">","1","8">>,
     <<"a","g","e","!","1","8">>,
     K_BRAND \o <<"=","=">> \o S_x,
     <<"a","g","e",">","=","1","8","\t">> \o AND_ \o <<"\t">> \o K_name \o <<"=","=">> \o S_x,
     Join(<<<<"a","g","e",">","=","1","8">>, <<"o","R">>, K_name, K_name \o <<"=","=">> \o S_x>>),
     Join(<<<<"O","r">>, <<"a","g","e",">","=","1","8">>, <<"a","N","D">>, <<"a","g","e","<","1","9">>>>),
     Join(<<<<"a","g","e","<","1","8">>, OR_, <<"a","g","e",">","1","8">>, AND_, K_name \o <<"!","=">> \o S_x>>)}

Scenario(w, r, inc) ==
    [where |-> w, data |-> ListDoc(<<Object(r)>>), include_keys |-> inc]

Age(v) == (K_age :> v) @@ Named
W_age_ge_18 == SomeStr(<<"a","g","e",">","=","1","8">>)

\* whole documents: unreadable, not an array, arrays of several elements
BatchScenarios ==
    {[where |-> w, data |-> d, include_keys |-> inc] :
        w \in {NoneStr, W_age_ge_18},
        inc \in {NoneList, SomeList(<<K_name, K_id>>)},
        d \in {UnreadableDoc, ScalarDoc, ListDoc(<<>>),
               ListDoc(<<NonObject, Object(Age(PyInt(19)))>>),
               ListDoc(<<Object(Age(PyInt(17))), Object(Age(PyInt(19)))>>),
               ListDoc(<<Object(Age(PyStr(S_US))), Object(Age(PyInt(19)))>>)}}

Includes == {NoneList, SomeList(<<>>), SomeList(<<K_name, K_id>>),
             SomeList(<<K_age, K_id, K_age>>)}

Scenarios ==
    {Scenario(SomeStr(w), r, inc) :
        w \in ChainWheres, r \in ChainRecords,
        inc \in {NoneList, SomeList(<<<<"a">>, K_id>>)}}
    \cup {Scenario(SomeStr(w), r, inc) :
        w \in SingleWheres \cup OddWheres, r \in SingleRecords,
        inc \in {NoneList, SomeList(<<K_name, K_id>>)}}
    \cup {Scenario(w, r, inc) :
        w \in {NoneStr, W_age_ge_18}, r \in SingleRecords, inc \in Includes}
    \cup BatchScenarios

-----------------------------------------------------------------------------
(* the state machine *)

Init ==
    /\ \E sc \in Scenarios :
          where = sc.where /\ data = sc.data /\ include_keys = sc.include_keys
    /\ pc = "load"
    /\ n = 1
    /\ out = <<>>
    /\ conditions = <<>>
    /\ j = 1
    /\ keep = TRUE
    /\ current_logic = and_
    /\ results = <<>>
    /\ ret = Pending
    /\ exit_code = -1

call_vars == <<conditions, j, keep, current_logic, results, ret>>
args == <<where, include_keys, data>>

\* lines 99-104: the file cannot be read or is not JSON
ReadFails ==
    /\ pc = "load" /\ data.kind = "unreadable"
    /\ pc' = "exit" /\ exit_code' = 2
    /\ UNCHANGED <<args, n, out, call_vars>>

\* lines 107-109: the top-level value is not an array
RejectNonList ==
    /\ pc = "load" /\ data.kind = "object"
    /\ pc' = "exit" /\ exit_code' = 2
    /\ UNCHANGED <<args, n, out, call_vars>>

\* line 111
StartLoop ==
    /\ pc = "load" /\ data.kind = "list"
    /\ pc' = "loop"
    /\ UNCHANGED <<args, n, out, call_vars, exit_code>>

\* lines 113-114
SkipNonDict ==
    /\ pc = "loop" /\ n <= Len(data.items) /\ ~data.items[n].isdict
    /\ n' = n + 1
    /\ UNCHANGED <<args, pc, out, call_vars, exit_code>>

\* line 115 and lines 68-71: the call, and the parse when `where` is truthy
CallFilterRecord ==
    /\ pc = "loop" /\ n <= Len(data.items) /\ data.items[n].isdict
    /\ IF TruthyStr(where)
       THEN /\ conditions' = parse_conditions(where.s)
            /\ pc' = "fold"
       ELSE /\ conditions' = <<>>
            /\ pc' = "project"
    /\ keep' = TRUE
    /\ current_logic' = and_
    /\ j' = 1
    /\ results' = <<>>
    /\ ret' = Pending
    /\ UNCHANGED <<args, n, out, exit_code>>

\* lines 72-78: one iteration of the fold
FoldCondition ==
    /\ pc = "fold" /\ j <= Len(conditions)
    /\ ~CondRaises(rec, conditions[j])
    /\ LET result == CondResult(rec, conditions[j])
       IN  /\ keep' = Combine(current_logic, keep, result)
           /\ results' = Append(results, result)
    /\ current_logic' = NextLogic(conditions[j])
    /\ j' = j + 1
    /\ UNCHANGED <<args, pc, n, out, conditions, ret, exit_code>>

\* line 73 raising TypeError: nothing catches it in filter_record or in main,
\* so the interpreter prints the traceback and exits with status 1
FoldRaises ==
    /\ pc = "fold" /\ j <= Len(conditions)
    /\ CondRaises(rec, conditions[j])
    /\ ret' = Raised
    /\ pc' = "exit" /\ exit_code' = 1
    /\ UNCHANGED <<args, n, out, conditions, j, keep, current_logic, results>>

\* lines 79-80
ReturnNone ==
    /\ pc = "fold" /\ j > Len(conditions) /\ ~keep
    /\ ret' = ReturnedNone
    /\ pc' = "returned"
    /\ UNCHANGED <<args, n, out, conditions, j, keep, current_logic, results, exit_code>>

\* control is at line 84
AtProjection == pc = "project" \/ (pc = "fold" /\ j > Len(conditions) /\ keep)

\* lines 84-85
ReturnProjected ==
    /\ AtProjection /\ Projects(include_keys)
    /\ ret' = Returned(Project(rec, include_keys.keys), FALSE)
    /\ pc' = "returned"
    /\ UNCHANGED <<args, n, out, conditions, j, keep, current_logic, results, exit_code>>

\* line 88
ReturnOriginal ==
    /\ AtProjection /\ ~Projects(include_keys)
    /\ ret' = Returned(rec, TRUE)
    /\ pc' = "returned"
    /\ UNCHANGED <<args, n, out, conditions, j, keep, current_logic, results, exit_code>>

\* lines 116-117
Collect ==
    /\ pc = "returned"
    /\ out' = IF ret.kind = "none" THEN out ELSE Append(out, ret.r)
    /\ n' = n + 1
    /\ pc' = "loop"
    /\ UNCHANGED <<args, call_vars, exit_code>>

\* line 120
Dump ==
    /\ pc = "loop" /\ n > Len(data.items)
    /\ pc' = "exit" /\ exit_code' = 0
    /\ UNCHANGED <<args, n, out, call_vars>>

Next ==
    \/ ReadFails
    \/ RejectNonList
    \/ StartLoop
    \/ SkipNonDict
    \/ CallFilterRecord
    \/ FoldCondition
    \/ FoldRaises
    \/ ReturnNone
    \/ ReturnProjected
    \/ ReturnOriginal
    \/ Collect
    \/ Dump

Spec == Init /\ [][Next]_vars

-----------------------------------------------------------------------------
(* vocabulary of the properties *)

\* a call of filter_record is in progress or has just ended: `rec` is its argument
InCall == pc \in {"fold", "project", "returned"} \/ ret.kind = "TypeError"

\* the call has ended, by a return or by an exception
CallEnded == pc = "returned" \/ ret.kind = "TypeError"

GE == <<">","=">>
EQ == <<"=","=">>
NE == <<"!","=">>

\* sym occurs in s at position p
OccursAt(s, sym, p) ==
    /\ p >= 1 /\ p + Len(sym) - 1 <= Len(s)
    /\ \A q \in 1..Len(sym) : s[p + q - 1] = sym[q]
Occurs(s, sym) == \E p \in 1..Len(s) : OccursAt(s, sym, p)

\* parse_conditions has just returned: `conditions` is its result for `where`
JustParsed == TruthyStr(where) /\ pc = "fold" /\ j = 1

\* a token holds a comparison symbol
HasSymbol(token) == \E q \in 1..Len(Symbols) : Occurs(token, Symbols[q])

\* a token reads and/or in some casing
ReadsAsConnective(token) == Lower(token) \in {and_, or_}

\* the positions, in order, of the tokens that produce a condition: those that
\* hold a symbol (a token that reads and/or holds none)
ComparisonAt(tokens) ==
    SelectSeq([p \in 1..Len(tokens) |-> p],
              LAMBDA p : HasSymbol(tokens[p]) /\ ~ReadsAsConnective(tokens[p]))

\* the k-th chain comparison holds of the record
ChainHolds(r, k) == <<ChainKeys[k]>> \in DOMAIN r /\ r[<<ChainKeys[k]>>] = PyInt(k)

\* the literal is kept as a str by the coercion policy
IsPlainText(lit) ==
    ~IsIntLiteral(lit) /\ ~IsFloatLiteral(lit) /\ Lower(lit) \notin {true_, false_}

-----------------------------------------------------------------------------
(* C1 *)

\* C1: for a where expression of one comparison k>=v with v an integer literal
\* and no include_keys, filter_record returns the record itself exactly when the
\* record has key k with a numeric value >= v, and returns None otherwise
\* (stated for the records in which k is absent or holds a number).
C1_IntegerGeKeepsExactlyNumericGe ==
    \A k \in SingleKeys, lit \in SingleLits :
        (/\ IsIntLiteral(lit)
         /\ where = SomeStr(k \o GE \o lit)
         /\ ~TruthyList(include_keys)
         /\ CallEnded
         /\ k \in DOMAIN rec => IsNumber(rec[k]))
        => IF /\ k \in DOMAIN rec
              /\ IsNumber(rec[k])
              /\ rec[k].n >= IntOf(lit).n * rec[k].d
           THEN ret = Returned(rec, TRUE)
           ELSE ret = ReturnedNone

-----------------------------------------------------------------------------
(* C2 *)

\* C2: a condition whose key is present with a value not order-comparable with
\* the condition's value yields result false under >=, <=, > and <, and
\* filter_record returns normally: no TypeError leaves it.
C2_TypeMismatchYieldsFalse ==
    /\ ret.kind # "TypeError"
    /\ InCall =>
         \A k \in 1..Len(results) :
            (/\ Present(rec, conditions[k])
             /\ conditions[k].op \notin {EQ, NE}
             /\ ~Orderable(rec[conditions[k].key], conditions[k].val))
            => results[k] = FALSE

-----------------------------------------------------------------------------
(* C3 *)

\* C3: `c1 or c2` keeps a record exactly when c1 or c2 holds of it, and
\* `c1 and c2` exactly when both hold: the connective written between two
\* comparisons joins the second one's result with the first one's.
C3_ConnectiveJoinsItsOwnCondition ==
    \A conn \in {and_, or_} :
        (/\ pc = "returned"
         /\ where = SomeStr(Join(<<ChainComp(1), conn, ChainComp(2)>>)))
        => ((ret.kind = "dict") <=>
              IF conn = or_ THEN ChainHolds(rec, 1) \/ ChainHolds(rec, 2)
                            ELSE ChainHolds(rec, 1) /\ ChainHolds(rec, 2))

-----------------------------------------------------------------------------
(* C4 *)

W_sticky == SomeStr(Join(<<ChainComp(1), or_, ChainComp(2), and_, ChainComp(3)>>))
R_sticky == (<<"a">> :> PyInt(1)) @@ (<<"b">> :> PyInt(0)) @@ (<<"c">> :> PyInt(0))

StickyConditions(l1, l2, l3) ==
    <<[key |-> <<"a">>, op |-> EQ, val |-> PyInt(1), logic |-> l1],
      [key |-> <<"b">>, op |-> EQ, val |-> PyInt(2), logic |-> l2],
      [key |-> <<"c">>, op |-> EQ, val |-> PyInt(3), logic |-> l3]>>

\* C4 as stated: `a==1 or b==2 and c==3` parses to three == conditions on a, b, c
\* with values 1, 2, 3 carrying the connectives or, and, and; and {a:1, b:0, c:0}
\* is kept.
C4_StickyAsStated ==
    (where = W_sticky /\ InCall)
    => /\ conditions = StickyConditions(or_, and_, and_)
       /\ (pc = "returned" /\ rec = R_sticky) => ret.kind = "dict"

\* C4 amended: the three conditions carry the connectives and, or, and (each
\* connective token is stored on the comparison after it, the first comparison
\* carries the default), and {a:1, b:0, c:0} is dropped.
C4_StickyAsParsed ==
    (where = W_sticky /\ InCall)
    => /\ conditions = StickyConditions(and_, or_, and_)
       /\ (pc = "returned" /\ rec = R_sticky) => ret = ReturnedNone

C4_Witness ==
    /\ where = W_sticky /\ pc = "returned" /\ rec = R_sticky
    /\ Len(results) = 3

-----------------------------------------------------------------------------
(* C5 *)

\* C5: for a comparison k==V with V a plain string literal, the parsed key is
\* exactly k and the parsed value exactly V, character for character, so the
\* expression keeps exactly the records whose k equals V.
C5_KeyAndTextVerbatim ==
    \A k \in SingleKeys, lit \in SingleLits :
        (/\ IsPlainText(lit)
         /\ where = SomeStr(k \o EQ \o lit)
         /\ InCall)
        => /\ conditions = <<[key |-> k, op |-> EQ, val |-> PyStr(lit), logic |-> and_]>>
           /\ pc = "returned" =>
                ((ret.kind = "dict") <=> (k \in DOMAIN rec /\ rec[k] = PyStr(lit)))

-----------------------------------------------------------------------------
(* C6 *)

\* the connective pending at position p of the tokens when exactly the tokens
\* in `recognized` count as connectives: the last one before p, lowercased, or
\* the default
PendingAt(tokens, p, recognized) ==
    LET before == {q \in 1..(p - 1) : tokens[q] \in recognized}
    IN  IF before = {} THEN and_
        ELSE Lower(tokens[CHOOSE q \in before : \A q2 \in before : q2 <= q])

ExactConnectives == {AND_, OR_, and_, or_}
AnyCaseConnectives(tokens) ==
    {tokens[q] : q \in {q2 \in 1..Len(tokens) : ReadsAsConnective(tokens[q2])}}

\* C6 as stated: only the tokens AND, OR, and, or set the pending connective; a
\* token in another casing (And, Or, oR, ...) leaves it as it was.
C6_OnlyExactCasing ==
    JustParsed =>
        LET tokens == Split(where.s)
            at == ComparisonAt(tokens)
        IN  /\ Len(conditions) = Len(at)
            /\ \A k \in 1..Len(conditions) :
                  conditions[k].logic = PendingAt(tokens, at[k], ExactConnectives)

\* C6 amended: a token that reads and/or in any casing sets the pending
\* connective to its lowercase form and produces no condition.
C6_AnyCasing ==
    JustParsed =>
        LET tokens == Split(where.s)
            at == ComparisonAt(tokens)
        IN  /\ Len(conditions) = Len(at)
            /\ \A k \in 1..Len(conditions) :
                  conditions[k].logic =
                      PendingAt(tokens, at[k], AnyCaseConnectives(tokens))

\* a comparison preceded by `Or`, its only connective, carries `or`
C6_Witness ==
    /\ JustParsed
    /\ LET tokens == Split(where.s)
           at == ComparisonAt(tokens)
       IN  \E k \in 1..Len(conditions) :
              /\ conditions[k].logic = or_
              /\ \A q \in 1..(at[k] - 1) :
                    ReadsAsConnective(tokens[q]) => tokens[q] = <<"O","r">>

-----------------------------------------------------------------------------
(* C7 *)

\* C7: under every operator and for every condition value, a condition whose key
\* is absent from the record evaluates to false and does not raise; an
\* expression of one condition on a missing key drops the record.
C7_MissingKeyIsFalse ==
    InCall =>
        /\ \A k \in 1..Len(results) :
              conditions[k].key \notin DOMAIN rec => results[k] = FALSE
        /\ ret.kind = "TypeError" => conditions[j].key \in DOMAIN rec
        /\ (/\ CallEnded
            /\ Len(conditions) = 1
            /\ conditions[1].key \notin DOMAIN rec) => ret = ReturnedNone

\* `age!=<something>` was evaluated against a record without age, and dropped it
C7_Witness ==
    /\ pc = "returned" /\ ret = ReturnedNone
    /\ Len(conditions) = 1 /\ results = <<FALSE>>
    /\ conditions[1].op = NE /\ conditions[1].key = K_age
    /\ K_age \notin DOMAIN rec

-----------------------------------------------------------------------------
(* C8 *)

IncludeSet == {include_keys.keys[p] : p \in 1..Len(include_keys.keys)}

\* C8: a kept record is returned, when include_keys is non-empty, as a new
\* record whose keys are exactly include_keys, each mapped to the source's value
\* or to null when the source lacks it; when include_keys is empty or absent
\* the original record itself is returned; the source record is never modified.
C8_ProjectionState ==
    (pc = "returned" /\ ret.kind = "dict") =>
        IF TruthyList(include_keys)
        THEN /\ ~ret.same
             /\ DOMAIN ret.r = IncludeSet
             /\ \A k \in IncludeSet :
                   ret.r[k] = IF k \in DOMAIN rec THEN rec[k] ELSE PyNone
        ELSE ret.same /\ ret.r = rec

C8_Projection == []C8_ProjectionState /\ [][data' = data]_vars

\* a projection that had to fill a key the source lacks
C8_Witness ==
    /\ pc = "returned" /\ ret.kind = "dict" /\ TruthyList(include_keys)
    /\ \E k \in IncludeSet : k \notin DOMAIN rec /\ ret.r[k] = PyNone
    /\ \E k \in IncludeSet : k \in DOMAIN rec
    /\ \E k \in DOMAIN rec : k \notin IncludeSet

-----------------------------------------------------------------------------
(* C9 *)

\* the result of the i-th condition
RefResult(i) ==
    LET c == conditions[i]
    IN  c.key \in DOMAIN rec /\ OPS(c.op, rec[c.key], c.val)

\* the decision after i conditions: the i-th result is joined by the connective
\* the (i-1)-th condition carries, the first one by `and`, starting from true
RECURSIVE RefKeep(_)
RefKeep(i) ==
    IF i = 0 THEN TRUE
    ELSE LET lagged == IF i = 1 THEN and_ ELSE conditions[i - 1].logic
         IN  IF lagged = and_ THEN RefKeep(i - 1) /\ RefResult(i)
                              ELSE RefKeep(i - 1) \/ RefResult(i)

-----------------------------------------------------------------------------
(* C10 *)

\* the condition was cut from the token at the first occurrence of the first
\* listed symbol that occurs anywhere in the token
CutFrom(cond, token) ==
    \E q \in 1..Len(Symbols) :
        /\ cond.op = Symbols[q]
        /\ \A q2 \in 1..(q - 1) : ~Occurs(token, Symbols[q2])
        /\ \E p \in 1..Len(token) :
              /\ OccursAt(token, Symbols[q], p)
              /\ \A p2 \in 1..(p - 1) : ~OccursAt(token, Symbols[q], p2)
              /\ cond.key = SubSeq(token, 1, p - 1)
              /\ cond.val = Coerce(SubSeq(token, p + Len(Symbols[q]), Len(token)))

\* C10: every non-connective token yields at most one condition, none when it
\* holds no symbol; the condition uses the first of ==, !=, >=, <=, >, < that
\* occurs in the token and is cut at that symbol's first occurrence, so a token
\* with >= or <= and no == or != is never read as > or <; conditions keep the
\* order of their tokens.
C10_FirstSymbolFirstOccurrence ==
    JustParsed =>
        LET tokens == Tokenize(where.s)
            at == ComparisonAt(tokens)
        IN  /\ Len(conditions) = Len(at)
            /\ \A k \in 1..Len(conditions) :
                  LET token == tokens[at[k]]
                  IN  /\ CutFrom(conditions[k], token)
                      /\ (/\ Occurs(token, <<">","=">>) \/ Occurs(token, <<"<","=">>)
                          /\ ~Occurs(token, EQ) /\ ~Occurs(token, NE))
                         => conditions[k].op \in {<<">","=">>, <<"<","=">>}

\* a token holding both <= and >= was read as >=, cut at the >=
C10_Witness ==
    /\ JustParsed /\ Len(conditions) = 1
    /\ Occurs(Tokenize(where.s)[1], <<"<","=">>)
    /\ conditions[1].op = <<">","=">>
    /\ Occurs(conditions[1].key, <<"<","=">>)

=============================================================================
